---- MODULE Spec2Model ----
(***************************************************************************)
(* The download job orchestrator of the YouTube video downloader:          *)
(* MemStorage (server/storage.ts) and the routes module with the strategy  *)
(* pipeline downloadWithMultipleStrategies and its three executors         *)
(* tryYtdlCore, tryYoutubeDlExec and tryEnhancedYtDlp.                      *)
(*                                                                         *)
(* Scheduling is that of one Node.js event loop.  A handler runs to its    *)
(* first await; an await of a promise that is already settled (every call  *)
(* of MemStorage, every return of an async function) resumes in the        *)
(* microtask queue, which drains before the next I/O event, timer or HTTP  *)
(* request is dispatched.  A position of a job that resumes from the       *)
(* microtask queue is a member of MicroPcs; every action that models an    *)
(* event of the outside world is guarded by NoMicrotask.                   *)
(***************************************************************************)
EXTENDS Integers, Sequences, FiniteSets, TLC

VARIABLES
    downloads,   \* MemStorage.downloads: id -> Download
    order,       \* insertion order of the keys of MemStorage.downloads
    now,         \* the clock as new Date() read it last
    pc,          \* per id: position of POST /api/download and of its pipeline
    strat,       \* per id: loop index i of downloadWithMultipleStrategies
    download,    \* per id: the local `download` of the POST handler
    response,    \* per id: the body passed to res.json by the POST handler
    ytdl,        \* per id: the ytdl-core stream and its listeners
    files,       \* the downloads directory: file name -> who wrote it
    reply,       \* the HTTP response sent by the step just taken
    log,         \* per id: history of the strategy loop (calls, outcomes, delays)
    analyze,     \* per request: POST /api/analyze and its yt-dlp subprocess
    sd           \* per id: the closure of startDownload and its yt-dlp processes

vars == <<downloads, order, now, pc, strat, download, response, ytdl, files, reply,
          log, analyze, sd>>

-----------------------------------------------------------------------------
(* Bounds *)

MaxReqs == 2
MaxBytes == 1
MaxClock == 1
MaxAnalyze == 2
MaxLines == 2
MaxTotal == 12
MaxDownloaded == 12
MaxChunk == 2

Ids == 1..MaxReqs

\* Requests of POST /api/analyze.
AIds == 1..MaxAnalyze

\* The total the progress event reports: the content length, or 0 when the
\* response carries none.
Totals == {0, MaxBytes}

-----------------------------------------------------------------------------
(* Values *)

\* JavaScript's NaN and Infinity, as Math.round returns them for 0/0 and d/0.
NaN == -1
Infinity == 1000

null == [base |-> <<>>, ext |-> "null"]

\* Containers and extensions of output files.
Exts == {"mp4"}

GoodUrl == "https://www.youtube.com/watch?v=abc"
OtherUrl == "https://example.com/watch?v=abc"

NotUrl == "watch this"

validateURL(url) == url = GoodUrl

\* videoAnalysisSchema.parse: z.string().url(), refined by
\* url.includes("youtube.com/watch") || url.includes("youtu.be/").
IsUrl(url) == url \in {GoodUrl, OtherUrl}
IncludesYoutube(url) == url = GoodUrl
videoAnalysisSchema(url) == IsUrl(url) /\ IncludesYoutube(url)

\* The formats a download can be asked in.
Formats == {"mp4-1080p", "mp4-720p", "mp4-480p", "mp4", "mp3", "webm"}

\* Characters of a title: \w is "a" and "b", \s is " ", "!" is none of
\* [\w\s-].
WordChars == {"a", "b"}
SpaceChars == {" "}

RECURSIVE StripOther(_)
StripOther(s) ==
    IF s = <<>> THEN <<>>
    ELSE IF Head(s) \in WordChars \cup SpaceChars \cup {"-"}
         THEN <<Head(s)>> \o StripOther(Tail(s))
         ELSE StripOther(Tail(s))

RECURSIVE SquashSpaces(_)
SquashSpaces(s) ==
    IF s = <<>> THEN <<>>
    ELSE IF Head(s) \in SpaceChars
         THEN IF Len(s) > 1 /\ s[2] \in SpaceChars
              THEN SquashSpaces(Tail(s))
              ELSE <<"_">> \o SquashSpaces(Tail(s))
         ELSE <<Head(s)>> \o SquashSpaces(Tail(s))

sanitizedTitle(title) == SquashSpaces(StripOther(title))

startsWith(s, prefix) ==
    /\ Len(prefix) <= Len(s)
    /\ SubSeq(s, 1, Len(prefix)) = prefix

\* The file name "<base>.<ext>" as a sequence of characters up to its ext.
FileChars(f) == f.base \o <<".">>

PathOf(title, ext) == [base |-> sanitizedTitle(title), ext |-> ext]

\* Math.round((downloaded / total) * 100)
RoundPercent(downloaded, total) ==
    IF total = 0
    THEN IF downloaded = 0 THEN NaN ELSE Infinity
    ELSE (200 * downloaded + total) \div (2 * total)

-----------------------------------------------------------------------------
(* Request bodies of POST /api/download *)

Body(url, title, format, present) ==
    [youtubeUrl |-> url, title |-> title, format |-> format, present |-> present]

Bodies ==
    { Body(GoodUrl, <<"a">>, "mp4", {"youtubeUrl", "title", "format"}),
      Body(NotUrl, <<"a", "!">>, "exe", {"youtubeUrl", "title", "format"}),
      Body(GoodUrl, <<"a">>, "undefined", {"youtubeUrl"}) }

\* insertDownloadSchema.parse: youtubeUrl and title are required strings,
\* format is optional.
insertDownloadSchema(body) == {"youtubeUrl", "title"} \subseteq body.present

-----------------------------------------------------------------------------
(* POST /api/analyze: values *)

\* The request bodies: the url field.
Urls == {GoodUrl, OtherUrl, NotUrl}

\* A line of the standard output of yt-dlp --dump-json: "json" starts with
\* "{" and JSON.parse accepts it, "broken" starts with "{" and JSON.parse
\* throws on it, "text" does not start with "{".
Lines == {"json", "broken", "text"}

\* A request: the position of its handler and subprocess, the closure's
\* `output`, and the responses written to `res`.
NoAnalysis == [pc |-> "idle", output |-> <<>>, sent |-> <<>>]

Answer(code, body) == [code |-> code, body |-> body]

\* lines.find(line => line.trim().startsWith('{')): the index of the first
\* such line, 0 when there is none.
RECURSIVE FindJsonLine(_, _)
FindJsonLine(lines, i) ==
    IF i > Len(lines) THEN 0
    ELSE IF lines[i] \in {"json", "broken"} THEN i
    ELSE FindJsonLine(lines, i + 1)

\* The body of the close listener: the one call of res.json it makes.
OnClose(code, output) ==
    IF code # 0
    THEN Answer(500, "message")
    ELSE LET jsonLine == FindJsonLine(output, 1)
         IN IF jsonLine = 0 THEN Answer(500, "message")
            ELSE IF output[jsonLine] = "json" THEN Answer(200, "metadata")
            ELSE Answer(500, "message")

-----------------------------------------------------------------------------
(* MemStorage *)

createDownload(id, body, date) ==
    [id |-> id,
     youtubeUrl |-> body.youtubeUrl,
     title |-> body.title,
     format |-> body.format,
     status |-> "pending",
     progress |-> 0,
     filePath |-> null,
     createdAt |-> date]

getDownload(id) == IF id \in DOMAIN downloads THEN <<downloads[id]>> ELSE <<>>

\* Mutant of Merge: every update also stamps the record with the time of the
\* clock.
Merge_Stamped(rec, updates) ==
    [f \in DOMAIN rec |-> IF f \in DOMAIN updates THEN updates[f]
                          ELSE IF f = "createdAt" THEN now ELSE rec[f]]

Merge(rec, updates) ==
    [f \in DOMAIN rec |-> IF f \in DOMAIN updates THEN updates[f] ELSE rec[f]]

\* Mutant of updateDownload: the updates are merged into every record of the
\* store, not only into the one stored under id.
updateDownload_Everyone(store, id, updates) ==
    IF id \notin DOMAIN store
    THEN store
    ELSE [k \in DOMAIN store |-> Merge(store[k], updates)]

\* Mutant of updateDownload: a record that is written failed is taken out of
\* the store.
updateDownload_DropsFailed(store, id, updates) ==
    IF id \notin DOMAIN store
    THEN store
    ELSE IF "status" \in DOMAIN updates /\ updates.status = "failed"
         THEN [k \in DOMAIN store \ {id} |-> store[k]]
         ELSE [store EXCEPT ![id] = Merge(@, updates)]

\* Mutant of updateDownload: an id that is not in the store gets a record
\* made of the updates.
updateDownload_Upsert(store, id, updates) ==
    [k \in DOMAIN store \cup {id} |->
        IF k # id THEN store[k]
        ELSE IF id \in DOMAIN store THEN Merge(store[id], updates) ELSE updates]

updateDownload(store, id, updates) ==
    IF id \notin DOMAIN store
    THEN store
    ELSE [store EXCEPT ![id] = Merge(@, updates)]

\* The comparator (a, b) => b.createdAt - a.createdAt is negative: a is put
\* before b.
NewerFirst(a, b) == b.createdAt - a.createdAt < 0

\* Array.prototype.sort is stable: an element is put before the first
\* element the comparator orders it before, and after all the others.
RECURSIVE InsertSorted(_, _)
InsertSorted(x, s) ==
    IF s = <<>> THEN <<x>>
    ELSE IF NewerFirst(x, Head(s))
         THEN <<x>> \o s
         ELSE <<Head(s)>> \o InsertSorted(x, Tail(s))

RECURSIVE StableSort(_)
StableSort(s) ==
    IF s = <<>> THEN <<>>
    ELSE InsertSorted(s[Len(s)], StableSort(SubSeq(s, 1, Len(s) - 1)))

getAllDownloads ==
    StableSort([k \in 1..Len(order) |-> downloads[order[k]]])

-----------------------------------------------------------------------------
(* The event loop *)

MicroPcs == {"post_created", "dl_begin", "en_updated",
             "got_true", "got_false", "got_throw", "sd_caught"}

NoMicrotask == \A j \in Ids : pc[j] \notin MicroPcs /\ sd[j].trying = 0

NoReply == [op |-> "none", id |-> 0, code |-> 0, body |-> <<>>, file |-> null]

Reply(op, id, code, body, file) ==
    [op |-> op, id |-> id, code |-> code, body |-> body, file |-> file]

NoStream == [mode |-> "none", total |-> 0, downloaded |-> 0, path |-> null]

\* The closure of one startDownload call: lastProgress and strategyIndex,
\* the timers set with setTimeout(tryNextStrategy, 1000) that have not fired,
\* the tryNextStrategy calls suspended at their await, the alternative
\* yt-dlp processes that run, those that emitted "error" and have "close"
\* still to come, and how the primary process ended.
NoStart == [lastProgress |-> 0, strategyIndex |-> 0, timers |-> 0, trying |-> 0,
            children |-> 0, errored |-> 0, exit |-> "none"]

\* A file of the downloads directory: its name, and the job and strategy
\* that wrote it last; partial is TRUE for a file whose download did not end.
File(path, j, s, partial) ==
    [base |-> path.base, ext |-> path.ext, job |-> j, strat |-> s,
     partial |-> partial]

NameOf(f) == [base |-> f.base, ext |-> f.ext]

WriteFile(fs, path, j, s, partial) ==
    {f \in fs : NameOf(f) # path} \cup {File(path, j, s, partial)}

\* fs.readdirSync(outputDir).filter(f => f.startsWith(sanitizedTitle) &&
\* !f.startsWith('.'))
Matching(fs, title) ==
    { NameOf(f) : f \in
        { g \in fs : /\ startsWith(FileChars(g), sanitizedTitle(title))
                     /\ ~startsWith(FileChars(g), <<".">>) } }

existsSync(path) == \E f \in files : NameOf(f) = path

Init ==
    /\ downloads = <<>>
    /\ order = <<>>
    /\ now = 0
    /\ pc = [j \in Ids |-> "idle"]
    /\ strat = [j \in Ids |-> 0]
    /\ download = [j \in Ids |-> <<>>]
    /\ response = [j \in Ids |-> <<>>]
    /\ ytdl = [j \in Ids |-> NoStream]
    /\ files = {}
    /\ reply = NoReply
    /\ log = [j \in Ids |-> <<>>]
    /\ analyze = [a \in AIds |-> NoAnalysis]
    /\ sd = [j \in Ids |-> NoStart]

-----------------------------------------------------------------------------
(* POST /api/download *)

\* Mutant of PostDownload: a submission is taken only when no job is in
\* flight.
PostDownload_OneAtATime(body) ==
    /\ NoMicrotask
    /\ \A j \in Ids : pc[j] \in {"idle", "done_ok", "done_failed"}
    /\ IF insertDownloadSchema(body)
       THEN /\ Len(order) < MaxReqs
            /\ \E date \in now..MaxClock :
                 LET id == Len(order) + 1
                     rec == createDownload(id, body, date)
                 IN /\ now' = date
                    /\ downloads' = [k \in DOMAIN downloads \cup {id} |->
                                        IF k = id THEN rec ELSE downloads[k]]
                    /\ order' = Append(order, id)
                    /\ download' = [download EXCEPT ![id] = <<rec>>]
                    /\ pc' = [pc EXCEPT ![id] = "post_created"]
            /\ reply' = NoReply
       ELSE /\ reply' = Reply("postDownload", 0, 400, <<>>, null)
            /\ UNCHANGED <<downloads, order, now, download, pc>>
    /\ UNCHANGED <<strat, response, ytdl, files, log, analyze, sd>>

\* The handler up to `await storage.createDownload(downloadData)`; a body
\* the schema rejects is answered 400 from the catch block.  new Date() reads
\* the clock, which has not gone back since it was read last.
PostDownload(body) ==
    /\ NoMicrotask
    /\ IF insertDownloadSchema(body)
       THEN /\ Len(order) < MaxReqs
            /\ \E date \in now..MaxClock :
                 LET id == Len(order) + 1
                     rec == createDownload(id, body, date)
                 IN /\ now' = date
                    /\ downloads' = [k \in DOMAIN downloads \cup {id} |->
                                        IF k = id THEN rec ELSE downloads[k]]
                    /\ order' = Append(order, id)
                    /\ download' = [download EXCEPT ![id] = <<rec>>]
                    /\ pc' = [pc EXCEPT ![id] = "post_created"]
            /\ reply' = NoReply
       ELSE /\ reply' = Reply("postDownload", 0, 400, <<>>, null)
            /\ UNCHANGED <<downloads, order, now, download, pc>>
    /\ UNCHANGED <<strat, response, ytdl, files, log, analyze, sd>>

\* Mutant of PostRespond: the pipeline is started first and the response
\* carries the record read back from the store.
PostRespond_AfterStart(j) ==
    /\ pc[j] = "post_created"
    /\ downloads' = updateDownload(downloads, j,
                        [status |-> "downloading", progress |-> 0])
    /\ response' = [response EXCEPT ![j] = <<downloads'[j]>>]
    /\ reply' = Reply("postDownload", j, 200, <<downloads'[j]>>, null)
    /\ pc' = [pc EXCEPT ![j] = "dl_begin"]
    /\ UNCHANGED <<order, now, strat, download, ytdl, files, log, analyze, sd>>

\* Mutant of PostRespond: downloadWithMultipleStrategies does not write
\* {downloading, 0} before it goes on.
PostRespond_NoMark(j) ==
    /\ pc[j] = "post_created"
    /\ response' = [response EXCEPT ![j] = download[j]]
    /\ reply' = Reply("postDownload", j, 200, download[j], null)
    /\ pc' = [pc EXCEPT ![j] = "dl_begin"]
    /\ UNCHANGED <<downloads, order, now, strat, download, ytdl, files, log, analyze, sd>>

\* res.json(download), then the call of downloadWithMultipleStrategies, which
\* runs to its first await: updateDownload(downloadId, {downloading, 0}).
PostRespond(j) ==
    /\ pc[j] = "post_created"
    /\ response' = [response EXCEPT ![j] = download[j]]
    /\ reply' = Reply("postDownload", j, 200, download[j], null)
    /\ downloads' = updateDownload(downloads, j,
                        [status |-> "downloading", progress |-> 0])
    /\ pc' = [pc EXCEPT ![j] = "dl_begin"]
    /\ UNCHANGED <<order, now, strat, download, ytdl, files, log, analyze, sd>>

-----------------------------------------------------------------------------
(* tryYtdlCore *)

\* Mutant of tryYtdlCore: the record is written {downloading, 10} before
\* the URL is validated.
tryYtdlCore_WritesFirst(j, store, lg) ==
    /\ log' = [log EXCEPT ![j] = Append(lg, "tryYtdlCore")]
    /\ downloads' = updateDownload(store, j,
                        [status |-> "downloading", progress |-> 10])
    /\ IF ~validateURL(download[j][1].youtubeUrl)
       THEN pc' = [pc EXCEPT ![j] = "got_false"]
       ELSE pc' = [pc EXCEPT ![j] = "yc_getinfo"]

\* The call of tryYtdlCore up to its first suspension: a URL that
\* ytdl.validateURL rejects returns false; otherwise the record is written
\* {downloading, 10} and ytdl.getInfo is awaited.
tryYtdlCore(j, store, lg) ==
    /\ log' = [log EXCEPT ![j] = Append(lg, "tryYtdlCore")]
    /\ IF ~validateURL(download[j][1].youtubeUrl)
       THEN /\ downloads' = store
            /\ pc' = [pc EXCEPT ![j] = "got_false"]
       ELSE /\ downloads' = updateDownload(store, j,
                                [status |-> "downloading", progress |-> 10])
            /\ pc' = [pc EXCEPT ![j] = "yc_getinfo"]

\* ytdl.getInfo settles: it rejects or chooseFormat finds no format (false),
\* or the stream and the write stream are created and the listeners
\* registered.
YcInfo(j) ==
    /\ NoMicrotask
    /\ pc[j] = "yc_getinfo"
    /\ \/ /\ pc' = [pc EXCEPT ![j] = "got_false"]
          /\ UNCHANGED ytdl
       \/ \E container \in Exts, total \in Totals :
            /\ ytdl' = [ytdl EXCEPT ![j] =
                          [mode |-> "live", total |-> total, downloaded |-> 0,
                           path |-> PathOf(download[j][1].title, container)]]
            /\ pc' = [pc EXCEPT ![j] = "yc_streaming"]
    /\ reply' = NoReply
    /\ UNCHANGED <<downloads, order, now, strat, download, response, files, log, analyze, sd>>

\* Mutant of YcProgress: the listener merges the progress into the record as
\* the POST handler got it and stores that.
YcProgress_FromSnapshot(j) ==
    /\ NoMicrotask
    /\ ytdl[j].mode \in {"live", "stale"}
    /\ ytdl[j].downloaded < MaxBytes
    /\ LET downloaded == ytdl[j].downloaded + 1
           progress == RoundPercent(downloaded, ytdl[j].total)
       IN /\ ytdl' = [ytdl EXCEPT ![j].downloaded = downloaded]
          /\ downloads' = [downloads EXCEPT ![j] =
                               Merge(download[j][1], [progress |-> progress])]
    /\ files' = IF ytdl[j].mode = "live"
                THEN WriteFile(files, ytdl[j].path, j, 0, TRUE)
                ELSE files
    /\ reply' = NoReply
    /\ UNCHANGED <<order, now, pc, strat, download, response, log, analyze, sd>>

\* stream.on('progress'): a chunk arrived.  The listener stays registered
\* after the promise resolved false on a write-stream error (mode "stale"):
\* the request keeps delivering chunks until the unpiped stream's buffer fills.
YcProgress(j) ==
    /\ NoMicrotask
    /\ ytdl[j].mode \in {"live", "stale"}
    /\ ytdl[j].downloaded < MaxBytes
    /\ LET downloaded == ytdl[j].downloaded + 1
           progress == RoundPercent(downloaded, ytdl[j].total)
       IN /\ ytdl' = [ytdl EXCEPT ![j].downloaded = downloaded]
          /\ downloads' = updateDownload(downloads, j, [progress |-> progress])
    /\ files' = IF ytdl[j].mode = "live"
                THEN WriteFile(files, ytdl[j].path, j, 0, TRUE)
                ELSE files
    /\ reply' = NoReply
    /\ UNCHANGED <<order, now, pc, strat, download, response, log, analyze, sd>>

\* Mutant of YcFinish: the promise resolves true and the record is not
\* written.
YcFinish_ResolveOnly(j) ==
    /\ NoMicrotask
    /\ pc[j] = "yc_streaming"
    /\ ytdl[j].downloaded > 0
    /\ files' = WriteFile(files, ytdl[j].path, j, 0, FALSE)
    /\ ytdl' = [ytdl EXCEPT ![j] = NoStream]
    /\ pc' = [pc EXCEPT ![j] = "got_true"]
    /\ reply' = NoReply
    /\ UNCHANGED <<downloads, order, now, strat, download, response, log, analyze, sd>>

\* writeStream.on('finish'): the record is written completed and the promise
\* resolves true.
YcFinish(j) ==
    /\ NoMicrotask
    /\ pc[j] = "yc_streaming"
    /\ ytdl[j].downloaded > 0
    /\ downloads' = updateDownload(downloads, j,
                        [status |-> "completed", progress |-> 100,
                         filePath |-> ytdl[j].path])
    /\ files' = WriteFile(files, ytdl[j].path, j, 0, FALSE)
    /\ ytdl' = [ytdl EXCEPT ![j] = NoStream]
    /\ pc' = [pc EXCEPT ![j] = "got_true"]
    /\ reply' = NoReply
    /\ UNCHANGED <<order, now, strat, download, response, log, analyze, sd>>

\* Mutant of YcStreamError: the listener writes the record failed before it
\* resolves false.
YcStreamError_MarksFailed(j) ==
    /\ NoMicrotask
    /\ pc[j] = "yc_streaming"
    /\ downloads' = updateDownload(downloads, j, [status |-> "failed"])
    /\ ytdl' = [ytdl EXCEPT ![j] = NoStream]
    /\ pc' = [pc EXCEPT ![j] = "got_false"]
    /\ reply' = NoReply
    /\ UNCHANGED <<order, now, strat, download, response, files, log, analyze, sd>>

\* stream.on('error'): the request failed; the promise resolves false.
YcStreamError(j) ==
    /\ NoMicrotask
    /\ pc[j] = "yc_streaming"
    /\ ytdl' = [ytdl EXCEPT ![j] = NoStream]
    /\ pc' = [pc EXCEPT ![j] = "got_false"]
    /\ reply' = NoReply
    /\ UNCHANGED <<downloads, order, now, strat, download, response, files, log, analyze, sd>>

\* writeStream.on('error'): the promise resolves false; the stream is
\* neither destroyed nor are its listeners removed.
YcWriteError(j) ==
    /\ NoMicrotask
    /\ pc[j] = "yc_streaming"
    /\ ytdl' = [ytdl EXCEPT ![j].mode = "stale"]
    /\ pc' = [pc EXCEPT ![j] = "got_false"]
    /\ reply' = NoReply
    /\ UNCHANGED <<downloads, order, now, strat, download, response, files, log, analyze, sd>>

-----------------------------------------------------------------------------
(* tryYoutubeDlExec and tryEnhancedYtDlp *)

\* What a yt-dlp run leaves in the downloads directory: a run that ends well
\* wrote the output file "<sanitizedTitle>.<ext>", or wrote nothing (the
\* file was there already, or there was nothing to download); a run that
\* fails leaves the directory as it was.
RunLeaves(j, s, ok) ==
    LET title == download[j][1].title
    IN IF ok
       THEN {files} \cup {WriteFile(files, PathOf(title, e), j, s, FALSE) : e \in Exts}
       ELSE {files}

\* Mutant of ScanAndComplete: the completion write leaves out filePath.
ScanAndComplete_NoPath(j, fs) ==
    LET found == Matching(fs, download[j][1].title)
    IN IF found # {}
       THEN /\ downloads' = updateDownload(downloads, j,
                                [status |-> "completed", progress |-> 100])
            /\ pc' = [pc EXCEPT ![j] = "got_true"]
       ELSE /\ downloads' = downloads
            /\ pc' = [pc EXCEPT ![j] = "got_false"]

\* The directory scan after a run that ended well: with a matching file the
\* record is written completed with files[0] and the executor returns true,
\* otherwise it returns false.  readdirSync promises no order: files[0] is
\* any of the matching files.
ScanAndComplete(j, fs) ==
    LET found == Matching(fs, download[j][1].title)
    IN IF found # {}
       THEN \E first \in found :
              /\ downloads' = updateDownload(downloads, j,
                                 [status |-> "completed", progress |-> 100,
                                  filePath |-> first])
              /\ pc' = [pc EXCEPT ![j] = "got_true"]
       ELSE /\ downloads' = downloads
            /\ pc' = [pc EXCEPT ![j] = "got_false"]

\* The call of tryYoutubeDlExec up to the await of youtubedl(url, options).
tryYoutubeDlExec(j, store, lg) ==
    /\ log' = [log EXCEPT ![j] = Append(lg, "tryYoutubeDlExec")]
    /\ downloads' = updateDownload(store, j,
                        [status |-> "downloading", progress |-> 20])
    /\ pc' = [pc EXCEPT ![j] = "ye_running"]

\* youtubedl(url, options) settles: it rejects (caught: false) or resolves
\* and the directory is scanned.
YeResult(j) ==
    /\ NoMicrotask
    /\ pc[j] = "ye_running"
    /\ \/ /\ files' \in RunLeaves(j, 1, FALSE)
          /\ pc' = [pc EXCEPT ![j] = "got_false"]
          /\ UNCHANGED downloads
       \/ /\ files' \in RunLeaves(j, 1, TRUE)
          /\ ScanAndComplete(j, files')
    /\ reply' = NoReply
    /\ UNCHANGED <<order, now, strat, download, response, ytdl, log, analyze, sd>>

\* The call of tryEnhancedYtDlp up to `await storage.updateDownload`.
tryEnhancedYtDlp(j, store, lg) ==
    /\ log' = [log EXCEPT ![j] = Append(lg, "tryEnhancedYtDlp")]
    /\ downloads' = updateDownload(store, j,
                        [status |-> "downloading", progress |-> 30])
    /\ pc' = [pc EXCEPT ![j] = "en_updated"]

\* The promise executor: spawn("yt-dlp", args).  A spawn that throws rejects
\* the promise, which the executor's try block does not await.
EnSpawn(j) ==
    /\ pc[j] = "en_updated"
    /\ \/ pc' = [pc EXCEPT ![j] = "en_running"]
       \/ pc' = [pc EXCEPT ![j] = "got_throw"]
    /\ reply' = NoReply
    /\ UNCHANGED <<downloads, order, now, strat, download, response, ytdl, files, log, analyze, sd>>

\* ytdlp.on("close"): exit code 0 scans the directory, any other resolves
\* false.
EnClose(j) ==
    /\ NoMicrotask
    /\ pc[j] = "en_running"
    /\ \/ /\ files' \in RunLeaves(j, 2, FALSE)
          /\ pc' = [pc EXCEPT ![j] = "got_false"]
          /\ UNCHANGED downloads
       \/ /\ files' \in RunLeaves(j, 2, TRUE)
          /\ ScanAndComplete(j, files')
    /\ reply' = NoReply
    /\ UNCHANGED <<order, now, strat, download, response, ytdl, log, analyze, sd>>

\* ytdlp.on("error"): the process could not be started.
EnError(j) ==
    /\ NoMicrotask
    /\ pc[j] = "en_running"
    /\ pc' = [pc EXCEPT ![j] = "got_false"]
    /\ reply' = NoReply
    /\ UNCHANGED <<downloads, order, now, strat, download, response, ytdl, files, log, analyze, sd>>

-----------------------------------------------------------------------------
(* downloadWithMultipleStrategies *)

NumStrategies == 3

\* Mutant of Invoke: the array lists tryEnhancedYtDlp before
\* tryYoutubeDlExec.
Invoke_Swapped(j, i, store, lg) ==
    IF i = 0 THEN tryYtdlCore(j, store, lg)
    ELSE IF i = 1 THEN tryEnhancedYtDlp(j, store, lg)
    ELSE tryYoutubeDlExec(j, store, lg)

\* strategies[i](), called when the history of the loop is lg.
Invoke(j, i, store, lg) ==
    IF i = 0 THEN tryYtdlCore(j, store, lg)
    ELSE IF i = 1 THEN tryYoutubeDlExec(j, store, lg)
    ELSE tryEnhancedYtDlp(j, store, lg)

\* What `await strategies[i]()` gave the loop at position p.
Outcome(p) ==
    IF p = "got_true" THEN "true" ELSE IF p = "got_false" THEN "false" ELSE "throw"

\* After the first await: the downloads directory is made when missing (a
\* mkdirSync that throws lands in the outer catch, which writes failed), and
\* the loop starts with strategies[0]().
PipelineBegin(j) ==
    /\ pc[j] = "dl_begin"
    /\ \/ /\ downloads' = updateDownload(downloads, j,
                              [status |-> "failed", progress |-> 0])
          /\ pc' = [pc EXCEPT ![j] = "done_failed"]
          /\ UNCHANGED <<strat, log>>
       \/ /\ strat' = [strat EXCEPT ![j] = 0]
          /\ Invoke(j, 0, downloads, log[j])
    /\ reply' = NoReply
    /\ UNCHANGED <<order, now, download, response, ytdl, files, analyze, sd>>

\* Mutant of GotTrue: the return is missing, the loop goes on as after a
\* false.
GotTrue_FallsThrough(j) ==
    /\ pc[j] = "got_true"
    /\ IF strat[j] < NumStrategies - 1
       THEN /\ pc' = [pc EXCEPT ![j] = "delay"]
            /\ UNCHANGED downloads
       ELSE /\ downloads' = updateDownload(downloads, j,
                                [status |-> "failed", progress |-> 0])
            /\ pc' = [pc EXCEPT ![j] = "done_failed"]
    /\ log' = [log EXCEPT ![j] = Append(@, Outcome(pc[j]))]
    /\ reply' = NoReply
    /\ UNCHANGED <<order, now, strat, download, response, ytdl, files, analyze, sd>>

\* `await strategies[i]()` yields true: return.
GotTrue(j) ==
    /\ pc[j] = "got_true"
    /\ pc' = [pc EXCEPT ![j] = "done_ok"]
    /\ log' = [log EXCEPT ![j] = Append(@, Outcome(pc[j]))]
    /\ reply' = NoReply
    /\ UNCHANGED <<downloads, order, now, strat, download, response, ytdl, files, analyze, sd>>

\* Mutant of GotFalse: the write of failed after the loop is missing.
GotFalse_NoFinalWrite(j) ==
    /\ pc[j] \in {"got_false", "got_throw"}
    /\ pc' = [pc EXCEPT ![j] = IF strat[j] < NumStrategies - 1 THEN "delay" ELSE "done_failed"]
    /\ log' = [log EXCEPT ![j] = Append(@, Outcome(pc[j]))]
    /\ reply' = NoReply
    /\ UNCHANGED <<downloads, order, now, strat, download, response, ytdl, files, analyze, sd>>

\* Mutant of GotFalse: the wait between two strategies is missing, the next
\* strategy is called at once.
GotFalse_NoDelay(j) ==
    /\ pc[j] \in {"got_false", "got_throw"}
    /\ IF strat[j] < NumStrategies - 1
       THEN /\ strat' = [strat EXCEPT ![j] = strat[j] + 1]
            /\ Invoke(j, strat[j] + 1, downloads, Append(log[j], Outcome(pc[j])))
       ELSE /\ downloads' = updateDownload(downloads, j,
                                [status |-> "failed", progress |-> 0])
            /\ pc' = [pc EXCEPT ![j] = "done_failed"]
            /\ log' = [log EXCEPT ![j] = Append(@, Outcome(pc[j]))]
            /\ UNCHANGED strat
    /\ reply' = NoReply
    /\ UNCHANGED <<order, now, download, response, ytdl, files, analyze, sd>>

\* Mutant of GotFalse: the loop has no catch, so what a strategy throws
\* rejects the promise of downloadWithMultipleStrategies.
GotFalse_ThrowEscapes(j) ==
    /\ pc[j] \in {"got_false", "got_throw"}
    /\ IF pc[j] = "got_throw"
       THEN /\ pc' = [pc EXCEPT ![j] = "escaped"]
            /\ UNCHANGED downloads
       ELSE IF strat[j] < NumStrategies - 1
       THEN /\ pc' = [pc EXCEPT ![j] = "delay"]
            /\ UNCHANGED downloads
       ELSE /\ downloads' = updateDownload(downloads, j,
                                [status |-> "failed", progress |-> 0])
            /\ pc' = [pc EXCEPT ![j] = "done_failed"]
    /\ log' = [log EXCEPT ![j] = Append(@, Outcome(pc[j]))]
    /\ reply' = NoReply
    /\ UNCHANGED <<order, now, strat, download, response, ytdl, files, analyze, sd>>

\* Mutant of GotFalse: the wait is not under `i < strategies.length - 1`, it
\* follows the last strategy too.
GotFalse_DelaysAlways(j) ==
    /\ pc[j] \in {"got_false", "got_throw"}
    /\ pc' = [pc EXCEPT ![j] = "delay"]
    /\ log' = [log EXCEPT ![j] = Append(@, Outcome(pc[j]))]
    /\ reply' = NoReply
    /\ UNCHANGED <<downloads, order, now, strat, download, response, ytdl, files, analyze, sd>>

\* `await strategies[i]()` yields false or throws: wait 2 s when another
\* strategy is left, otherwise leave the loop and write failed.
GotFalse(j) ==
    /\ pc[j] \in {"got_false", "got_throw"}
    /\ IF strat[j] < NumStrategies - 1
       THEN /\ pc' = [pc EXCEPT ![j] = "delay"]
            /\ UNCHANGED downloads
       ELSE /\ downloads' = updateDownload(downloads, j,
                                [status |-> "failed", progress |-> 0])
            /\ pc' = [pc EXCEPT ![j] = "done_failed"]
    /\ log' = [log EXCEPT ![j] = Append(@, Outcome(pc[j]))]
    /\ reply' = NoReply
    /\ UNCHANGED <<order, now, strat, download, response, ytdl, files, analyze, sd>>

\* Mutant of DelayElapsed: the timer is set when a strategy is called, not
\* when it has returned, and the next strategy is called when it fires.
DelayElapsed_Racing(j) ==
    /\ NoMicrotask
    /\ pc[j] \in {"delay", "yc_getinfo", "yc_streaming", "ye_running", "en_running"}
    /\ strat[j] < NumStrategies - 1
    /\ strat' = [strat EXCEPT ![j] = strat[j] + 1]
    /\ Invoke(j, strat[j] + 1, downloads, Append(log[j], "delay"))
    /\ reply' = NoReply
    /\ UNCHANGED <<order, now, download, response, ytdl, files, analyze, sd>>

\* Mutant of DelayElapsed: a timer also watches the running attempt and
\* gives the job up when it fires.
DelayElapsed_GivesUp(j) ==
    /\ NoMicrotask
    /\ pc[j] \in {"delay", "yc_getinfo", "yc_streaming", "ye_running", "en_running"}
    /\ IF pc[j] = "delay"
       THEN /\ strat' = [strat EXCEPT ![j] = strat[j] + 1]
            /\ Invoke(j, strat[j] + 1, downloads, Append(log[j], "delay"))
       ELSE /\ downloads' = updateDownload(downloads, j,
                                [status |-> "failed", progress |-> 0])
            /\ pc' = [pc EXCEPT ![j] = "done_failed"]
            /\ UNCHANGED <<strat, log>>
    /\ reply' = NoReply
    /\ UNCHANGED <<order, now, download, response, ytdl, files, analyze, sd>>

\* The timer of setTimeout(resolve, 2000) fires: i++ and strategies[i]().
DelayElapsed(j) ==
    /\ NoMicrotask
    /\ pc[j] = "delay"
    /\ strat' = [strat EXCEPT ![j] = strat[j] + 1]
    /\ Invoke(j, strat[j] + 1, downloads, Append(log[j], "delay"))
    /\ reply' = NoReply
    /\ UNCHANGED <<order, now, download, response, ytdl, files, analyze, sd>>

-----------------------------------------------------------------------------
(* The GET routes *)

\* Ids a client may ask for: every id of the store and one never created.
AskIds == 1..(MaxReqs + 1)

\* Mutant of GetStatus: the record is answered as it was created.
GetStatus_Snapshot(id) ==
    /\ NoMicrotask
    /\ reply' = IF getDownload(id) = <<>>
                THEN Reply("getStatus", id, 404, <<>>, null)
                ELSE Reply("getStatus", id, 200, download[id], null)
    /\ UNCHANGED <<downloads, order, now, pc, strat, download, response, ytdl, files, log, analyze, sd>>

\* GET /api/download/:id
GetStatus(id) ==
    /\ NoMicrotask
    /\ reply' = IF getDownload(id) = <<>>
                THEN Reply("getStatus", id, 404, <<>>, null)
                ELSE Reply("getStatus", id, 200, getDownload(id), null)
    /\ UNCHANGED <<downloads, order, now, pc, strat, download, response, ytdl, files, log, analyze, sd>>

\* GET /api/downloads
ListAll ==
    /\ NoMicrotask
    /\ reply' = Reply("listAll", 0, 200, getAllDownloads, null)
    /\ UNCHANGED <<downloads, order, now, pc, strat, download, response, ytdl, files, log, analyze, sd>>

\* Mutant of FetchOutputFile: the file is not looked up on disk.
FetchOutputFile_NoExistsCheck(id) ==
    /\ NoMicrotask
    /\ LET got == getDownload(id)
       IN reply' =
            IF got = <<>> \/ got[1].status # "completed" \/ got[1].filePath = null
            THEN Reply("fetchOutputFile", id, 404, <<>>, null)
            ELSE Reply("fetchOutputFile", id, 200, <<>>, got[1].filePath)
    /\ UNCHANGED <<downloads, order, now, pc, strat, download, response, ytdl, files, log, analyze, sd>>

\* GET /api/download/:id/file
FetchOutputFile(id) ==
    /\ NoMicrotask
    /\ LET got == getDownload(id)
       IN reply' =
            IF got = <<>> \/ got[1].status # "completed" \/ got[1].filePath = null
            THEN Reply("fetchOutputFile", id, 404, <<>>, null)
            ELSE IF ~existsSync(got[1].filePath)
                 THEN Reply("fetchOutputFile", id, 404, <<>>, null)
                 ELSE Reply("fetchOutputFile", id, 200, <<>>, got[1].filePath)
    /\ UNCHANGED <<downloads, order, now, pc, strat, download, response, ytdl, files, log, analyze, sd>>

\* A file of the downloads directory is removed from outside the server.
RemoveFile ==
    /\ NoMicrotask
    /\ \E f \in files : files' = files \ {f}
    /\ reply' = NoReply
    /\ UNCHANGED <<downloads, order, now, pc, strat, download, response, ytdl, log, analyze, sd>>

-----------------------------------------------------------------------------

\* The steps that change the store, the pipelines or the directory.
-----------------------------------------------------------------------------
(* POST /api/analyze *)

\* An uncaught exception ends the Node.js process.
ProcessAlive == \A a \in AIds : analyze[a].pc # "crashed"

jobVars == <<downloads, order, now, pc, strat, download, response, ytdl, files, log, sd>>

\* The handler to its end: a body the schema rejects and a spawn that throws
\* are answered 400 from the catch block; otherwise the listeners are
\* registered on the child, which runs, or which could not be started and
\* will say so with an `error` event.
PostAnalyze(a, url) ==
    /\ ProcessAlive
    /\ analyze[a].pc = "idle"
    /\ IF ~videoAnalysisSchema(url)
       THEN analyze' = [analyze EXCEPT ![a].pc = "done",
                                       ![a].sent = Append(@, Answer(400, "message"))]
       ELSE \/ analyze' = [analyze EXCEPT ![a].pc = "done",
                                          ![a].sent = Append(@, Answer(400, "message"))]
            \/ analyze' = [analyze EXCEPT ![a].pc = "running"]
            \/ analyze' = [analyze EXCEPT ![a].pc = "spawn_failed"]
    /\ reply' = NoReply
    /\ UNCHANGED jobVars

\* ytdlp.stdout.on("data"): output += data.toString()
AnalyzeData(a, line) ==
    /\ ProcessAlive
    /\ analyze[a].pc = "running"
    /\ Len(analyze[a].output) < MaxLines
    /\ analyze' = [analyze EXCEPT ![a].output = Append(@, line)]
    /\ reply' = NoReply
    /\ UNCHANGED jobVars

\* ytdlp.on("close", (code) => ...)
AnalyzeClose(a, code) ==
    /\ ProcessAlive
    /\ analyze[a].pc = "running"
    /\ analyze' = [analyze EXCEPT ![a].pc = "done",
                                    ![a].output = <<>>,
                                    ![a].sent = Append(@, OnClose(code, analyze[a].output))]
    /\ reply' = NoReply
    /\ UNCHANGED jobVars

\* The child emits `error` (yt-dlp is not installed, ENOENT): the handler
\* registered no listener for it, so the EventEmitter throws the error, which
\* nothing catches.
AnalyzeSpawnError(a) ==
    /\ ProcessAlive
    /\ analyze[a].pc = "spawn_failed"
    /\ analyze' = [analyze EXCEPT ![a].pc = "crashed"]
    /\ reply' = NoReply
    /\ UNCHANGED jobVars

NextAnalyze ==
    \/ \E a \in AIds, url \in Urls : PostAnalyze(a, url)
    \/ \E a \in AIds, line \in Lines : AnalyzeData(a, line)
    \/ \E a \in AIds, code \in {0, 1} : AnalyzeClose(a, code)
    \/ \E a \in AIds : AnalyzeSpawnError(a)

\* The analysis requests alone: they share no state with the download jobs.
AnalyzeSpec == Init /\ [][NextAnalyze]_vars

-----------------------------------------------------------------------------
(* The progress listener of tryYtdlCore, byte by byte *)

\* One job whose tryYtdlCore has registered its listeners: the record was
\* written {downloading, 0} and {downloading, 10}, ytdl.getInfo resolved,
\* the stream is open and reports a total of 0..MaxTotal.
InitProgress ==
    LET body == Body(GoodUrl, <<"a">>, "mp4", {"youtubeUrl", "title", "format"})
        rec == createDownload(1, body, 0)
    IN /\ downloads = updateDownload([k \in {1} |-> rec], 1,
                           [status |-> "downloading", progress |-> 10])
       /\ order = <<1>>
       /\ now = 0
       /\ pc = [j \in Ids |-> IF j = 1 THEN "yc_streaming" ELSE "idle"]
       /\ strat = [j \in Ids |-> 0]
       /\ download = [j \in Ids |-> IF j = 1 THEN <<rec>> ELSE <<>>]
       /\ response = [j \in Ids |-> IF j = 1 THEN <<rec>> ELSE <<>>]
       /\ \E total \in 0..MaxTotal :
            ytdl = [j \in Ids |->
                      IF j = 1
                      THEN [mode |-> "live", total |-> total, downloaded |-> 0,
                            path |-> PathOf(body.title, "mp4")]
                      ELSE NoStream]
       /\ files = {}
       /\ reply = NoReply
       /\ log = [j \in Ids |-> IF j = 1 THEN <<"tryYtdlCore">> ELSE <<>>]
       /\ analyze = [a \in AIds |-> NoAnalysis]
       /\ sd = [j \in Ids |-> NoStart]

\* stream.on('progress', (chunkLength, downloaded, total) => ...): a chunk of
\* chunkLength bytes arrived.
ProgressEvent(j, chunkLength) ==
    /\ NoMicrotask
    /\ ytdl[j].mode \in {"live", "stale"}
    /\ ytdl[j].downloaded + chunkLength <= MaxDownloaded
    /\ LET downloaded == ytdl[j].downloaded + chunkLength
           progress == RoundPercent(downloaded, ytdl[j].total)
       IN /\ ytdl' = [ytdl EXCEPT ![j].downloaded = downloaded]
          /\ downloads' = updateDownload(downloads, j, [progress |-> progress])
    /\ files' = IF ytdl[j].mode = "live"
                THEN WriteFile(files, ytdl[j].path, j, 0, TRUE)
                ELSE files
    /\ reply' = NoReply
    /\ UNCHANGED <<order, now, pc, strat, download, response, log, analyze, sd>>

NextProgress == \E j \in Ids, chunkLength \in 1..MaxChunk : ProgressEvent(j, chunkLength)

ProgressSpec == InitProgress /\ [][NextProgress]_vars

-----------------------------------------------------------------------------
(* startDownload: the single-process variant of the pipeline *)

\* The percentages the yt-dlp output reports.
SdPercents == {40, 100}

\* The exit codes of a yt-dlp process.
SdCodes == {0, 1}

NumAlternatives == 3

\* The "error" event of the primary process has no listener: it is an
\* uncaught exception, which ends the Node.js process.
SdAlive == \A j \in Ids : pc[j] # "sd_crashed"

sdFrame == <<order, now, strat, download, response, ytdl, log, analyze>>

\* fs.readdirSync(outputDir).filter(f => !f.startsWith('.'))
Listed(fs) == { NameOf(g) : g \in { f \in fs : ~startsWith(FileChars(f), <<".">>) } }

\* POST /api/download of this variant: the record is created, answered, and
\* startDownload is called and runs to its first await, having written
\* {downloading, 0}.
SdPostDownload(body) == SdAlive /\ PostDownload(body)

SdPostRespond(j) == SdAlive /\ PostRespond(j)

\* One call of tryNextStrategy by a closure s, up to its await: with every
\* alternative used the record is written {failed, 0}; otherwise it is
\* written {downloading, 0} and the call is suspended before the spawn.
tryNextStrategy(j, s) ==
    IF s.strategyIndex >= NumAlternatives
    THEN /\ downloads' = updateDownload(downloads, j,
                             [status |-> "failed", progress |-> 0])
         /\ sd' = [sd EXCEPT ![j] = s]
    ELSE /\ downloads' = updateDownload(downloads, j,
                             [status |-> "downloading", progress |-> 0])
         /\ sd' = [sd EXCEPT ![j] = [s EXCEPT !.trying = @ + 1]]

\* strategyIndex++; setTimeout(tryNextStrategy, 1000)
Retry(s) == [s EXCEPT !.strategyIndex = @ + 1, !.timers = @ + 1]

\* startDownload after its first await: mkdirSync or spawn throws, and the
\* catch block writes {failed, 0} and awaits; or spawn returns the primary
\* process and the listeners are registered.
SdBegin(j) ==
    /\ SdAlive
    /\ pc[j] = "dl_begin"
    /\ \/ /\ pc' = [pc EXCEPT ![j] = "sd_primary"]
          /\ downloads' = downloads
       \/ /\ pc' = [pc EXCEPT ![j] = "sd_caught"]
          /\ downloads' = updateDownload(downloads, j,
                              [status |-> "failed", progress |-> 0])
    /\ reply' = NoReply
    /\ UNCHANGED <<files, sd>>
    /\ UNCHANGED sdFrame

\* The primary process cannot be started: "error" is emitted and nothing
\* listens for it.
SdPrimaryError(j) ==
    /\ SdAlive /\ NoMicrotask
    /\ pc[j] = "sd_primary"
    /\ sd[j].lastProgress = 0
    /\ pc' = [pc EXCEPT ![j] = "sd_crashed"]
    /\ reply' = NoReply
    /\ UNCHANGED <<downloads, files, sd>>
    /\ UNCHANGED sdFrame

\* A "data" event of stdout or stderr that carries a percentage.
SdProgress(j, progress) ==
    /\ SdAlive /\ NoMicrotask
    /\ pc[j] = "sd_primary"
    /\ IF progress > sd[j].lastProgress
       THEN /\ sd' = [sd EXCEPT ![j].lastProgress = progress]
            /\ downloads' = updateDownload(downloads, j, [progress |-> progress])
       ELSE UNCHANGED <<downloads, sd>>
    /\ reply' = NoReply
    /\ UNCHANGED <<pc, files>>
    /\ UNCHANGED sdFrame

\* Mutant of SdPrimaryClose: a non-zero exit of the primary process starts
\* the alternative strategies.
SdPrimaryClose_Retries(j, code) ==
    /\ SdAlive /\ NoMicrotask
    /\ pc[j] = "sd_primary"
    /\ \E fs \in RunLeaves(j, 0, code = 0) :
         /\ files' = fs
         /\ IF code = 0
            THEN /\ pc' = [pc EXCEPT ![j] = "sd_end"]
                 /\ sd' = [sd EXCEPT ![j].exit = "zero"]
                 /\ IF Listed(fs) # {}
                    THEN \E last \in Listed(fs) :
                           downloads' = updateDownload(downloads, j,
                               [status |-> "completed", progress |-> 100,
                                filePath |-> last])
                    ELSE downloads' = updateDownload(downloads, j,
                               [status |-> "failed", progress |-> 0])
            ELSE /\ pc' = [pc EXCEPT ![j] = "sd_chain"]
                 /\ tryNextStrategy(j, [sd[j] EXCEPT !.exit = "nonzero"])
    /\ reply' = NoReply
    /\ UNCHANGED sdFrame

\* The "close" event of the primary process: with code 0 and a file in the
\* downloads directory the record is completed with the last file listed;
\* with code 0 and no file, or with another code, it is written {failed, 0}.
SdPrimaryClose(j, code) ==
    /\ SdAlive /\ NoMicrotask
    /\ pc[j] = "sd_primary"
    /\ \E fs \in RunLeaves(j, 0, code = 0) :
         /\ files' = fs
         /\ IF code = 0 /\ Listed(fs) # {}
            THEN \E last \in Listed(fs) :
                   downloads' = updateDownload(downloads, j,
                       [status |-> "completed", progress |-> 100,
                        filePath |-> last])
            ELSE downloads' = updateDownload(downloads, j,
                       [status |-> "failed", progress |-> 0])
    /\ pc' = [pc EXCEPT ![j] = "sd_end"]
    /\ sd' = [sd EXCEPT ![j].exit = IF code = 0 THEN "zero" ELSE "nonzero"]
    /\ reply' = NoReply
    /\ UNCHANGED sdFrame

\* The catch block after its await: the alternatives are set up and
\* tryNextStrategy is called for the first time.
SdCaught(j) ==
    /\ SdAlive
    /\ pc[j] = "sd_caught"
    /\ pc' = [pc EXCEPT ![j] = "sd_chain"]
    /\ tryNextStrategy(j, sd[j])
    /\ reply' = NoReply
    /\ UNCHANGED files
    /\ UNCHANGED sdFrame

\* tryNextStrategy after its await: spawn returns an alternative process,
\* or it throws and the inner catch block sets the timer.
SdTrySpawn(j) ==
    /\ SdAlive
    /\ sd[j].trying > 0
    /\ \/ sd' = [sd EXCEPT ![j] = [@ EXCEPT !.trying = @ - 1, !.children = @ + 1]]
       \/ sd' = [sd EXCEPT ![j] = Retry([@ EXCEPT !.trying = @ - 1])]
    /\ reply' = NoReply
    /\ UNCHANGED <<downloads, pc, files>>
    /\ UNCHANGED sdFrame

\* The "error" event of an alternative process; its "close" event follows.
SdChildError(j) ==
    /\ SdAlive /\ NoMicrotask
    /\ sd[j].children > 0
    /\ sd' = [sd EXCEPT ![j] = Retry([@ EXCEPT !.children = @ - 1, !.errored = @ + 1])]
    /\ reply' = NoReply
    /\ UNCHANGED <<downloads, pc, files>>
    /\ UNCHANGED sdFrame

\* The "close" event of an alternative process, of one that ran or of one
\* that could not be started (whose code is not 0): with code 0 and a file
\* in the downloads directory the record is completed; otherwise the next
\* alternative is scheduled.
SdChildClose(j, code) ==
    /\ SdAlive /\ NoMicrotask
    /\ \E s \in  { [sd[j] EXCEPT !.children = @ - 1] : x \in {1} \cap 1..sd[j].children }
            \cup { [sd[j] EXCEPT !.errored = @ - 1] : x \in {1} \cap 1..(IF code # 0 THEN sd[j].errored ELSE 0) } :
       \E fs \in RunLeaves(j, 1, code = 0) :
         /\ files' = fs
         /\ IF code = 0 /\ Listed(fs) # {}
            THEN /\ \E last \in Listed(fs) :
                      downloads' = updateDownload(downloads, j,
                          [status |-> "completed", progress |-> 100,
                           filePath |-> last])
                 /\ sd' = [sd EXCEPT ![j] = s]
            ELSE /\ downloads' = downloads
                 /\ sd' = [sd EXCEPT ![j] = Retry(s)]
    /\ reply' = NoReply
    /\ UNCHANGED pc
    /\ UNCHANGED sdFrame

\* A timer set with setTimeout(tryNextStrategy, 1000) fires.
SdTimer(j) ==
    /\ SdAlive /\ NoMicrotask
    /\ sd[j].timers > 0
    /\ tryNextStrategy(j, [sd[j] EXCEPT !.timers = @ - 1])
    /\ reply' = NoReply
    /\ UNCHANGED <<pc, files>>
    /\ UNCHANGED sdFrame

NextStart ==
    \/ \E body \in Bodies : SdPostDownload(body)
    \/ \E j \in Ids : SdPostRespond(j)
    \/ \E j \in Ids : SdBegin(j)
    \/ \E j \in Ids : SdPrimaryError(j)
    \/ \E j \in Ids, progress \in SdPercents : SdProgress(j, progress)
    \/ \E j \in Ids, code \in SdCodes : SdPrimaryClose(j, code)
    \/ \E j \in Ids : SdCaught(j)
    \/ \E j \in Ids : SdTrySpawn(j)
    \/ \E j \in Ids : SdChildError(j)
    \/ \E j \in Ids, code \in SdCodes : SdChildClose(j, code)
    \/ \E j \in Ids : SdTimer(j)

StartSpec == Init /\ [][NextStart]_vars

-----------------------------------------------------------------------------
(* updateDownload, called with any id *)

\* What updateDownload returns: undefined for an id that is not in the
\* store, the merged record otherwise.
Updated(store, id, updates) ==
    IF id \notin DOMAIN store THEN <<>> ELSE <<Merge(store[id], updates)>>

\* The updates the pipeline passes to updateDownload.
PipelineWrites ==
    { [status |-> "downloading", progress |-> 0],
      [status |-> "downloading", progress |-> 10],
      [progress |-> 50],
      [status |-> "completed", progress |-> 100, filePath |-> PathOf(<<"a">>, "mp4")],
      [status |-> "failed", progress |-> 0] }

\* The ids of the store's records, and one more that no record has.
UpdateIds == 1..(MaxReqs + 1)

\* A store of 0..MaxReqs records as createDownload made them.
InitUpdate ==
    LET body == Body(GoodUrl, <<"a">>, "mp4", {"youtubeUrl", "title", "format"})
    IN /\ \E n \in 0..MaxReqs :
            /\ downloads = [k \in 1..n |-> createDownload(k, body, 0)]
            /\ order = [k \in 1..n |-> k]
            /\ download = [j \in Ids |-> IF j <= n THEN <<createDownload(j, body, 0)>> ELSE <<>>]
       /\ now = 0
       /\ pc = [j \in Ids |-> "idle"]
       /\ strat = [j \in Ids |-> 0]
       /\ response = [j \in Ids |-> <<>>]
       /\ ytdl = [j \in Ids |-> NoStream]
       /\ files = {}
       /\ reply = NoReply
       /\ log = [j \in Ids |-> <<>>]
       /\ analyze = [a \in AIds |-> NoAnalysis]
       /\ sd = [j \in Ids |-> NoStart]

\* One call of storage.updateDownload(id, updates) and what it returns.
UpdateCall(id, updates) ==
    /\ downloads' = updateDownload(downloads, id, updates)
    /\ reply' = Reply("updateDownload", id, 0, Updated(downloads, id, updates), null)
    /\ UNCHANGED <<order, now, pc, strat, download, response, ytdl, files, log, analyze, sd>>

NextUpdate == \E id \in UpdateIds, updates \in PipelineWrites : UpdateCall(id, updates)

UpdateSpec == InitUpdate /\ [][NextUpdate]_vars

-----------------------------------------------------------------------------
NextJobs ==
    \/ \E body \in Bodies : PostDownload(body)
    \/ \E j \in Ids : PostRespond(j)
    \/ \E j \in Ids : PipelineBegin(j)
    \/ \E j \in Ids : YcInfo(j)
    \/ \E j \in Ids : YcProgress(j)
    \/ \E j \in Ids : YcFinish(j)
    \/ \E j \in Ids : YcStreamError(j)
    \/ \E j \in Ids : YcWriteError(j)
    \/ \E j \in Ids : YeResult(j)
    \/ \E j \in Ids : EnSpawn(j)
    \/ \E j \in Ids : EnClose(j)
    \/ \E j \in Ids : EnError(j)
    \/ \E j \in Ids : GotTrue(j)
    \/ \E j \in Ids : GotFalse(j)
    \/ \E j \in Ids : DelayElapsed(j)
    \/ RemoveFile

Next ==
    \/ NextJobs
    \/ \E id \in AskIds : GetStatus(id)
    \/ ListAll
    \/ \E id \in AskIds : FetchOutputFile(id)

Spec == Init /\ [][Next]_vars

\* Every step of a job that the event loop takes once it can: microtask
\* continuations, the timer, and the outcome of an attempt (getInfo settles,
\* the stream finishes or fails, the child process ends).  Progress events
\* are not among them: an attempt need not report progress.
PipelineStep(j) ==
    \/ PostRespond(j)
    \/ PipelineBegin(j)
    \/ YcInfo(j)
    \/ YcFinish(j)
    \/ YcStreamError(j)
    \/ YcWriteError(j)
    \/ YeResult(j)
    \/ EnSpawn(j)
    \/ EnClose(j)
    \/ EnError(j)
    \/ GotTrue(j)
    \/ GotFalse(j)
    \/ DelayElapsed(j)

\* The GET routes write nothing but the reply of their own step, which no
\* other step reads: the jobs run the same with and without them.
FairSpec == Init /\ [][NextJobs]_vars /\ \A j \in Ids : WF_vars(PipelineStep(j))

\* The steps of job j that run from the microtask queue.
MicroStep(j) ==
    \/ PostRespond(j)
    \/ PipelineBegin(j)
    \/ EnSpawn(j)
    \/ GotTrue(j)
    \/ GotFalse(j)

\* The event loop drains the microtasks of every job; the library calls,
\* subprocesses and timers of the job submitted last end, those of the
\* jobs before it may never end.
StallSpec ==
    /\ Init /\ [][NextJobs]_vars
    /\ \A j \in Ids : WF_vars(MicroStep(j))
    /\ WF_vars(PipelineStep(MaxReqs))

-----------------------------------------------------------------------------
(* Properties *)

Terminal == {"completed", "failed"}

StatusEdges ==
    { <<"pending", "downloading">>, <<"downloading", "downloading">>,
      <<"downloading", "completed">>, <<"downloading", "failed">> }

\* C1: the status of a record moves only along pending->downloading,
\* downloading->downloading, downloading->completed and downloading->failed,
\* and once it is completed or failed no later write changes the record.
C1_TerminalIsFinal ==
    [][\A j \in DOMAIN downloads :
          /\ downloads'[j].status # downloads[j].status
                => <<downloads[j].status, downloads'[j].status>> \in StatusEdges
          /\ downloads[j].status \in Terminal => downloads'[j] = downloads[j]]_vars

\* C2: in every state and for every record, filePath is set if and only if
\* the status is completed.
C2_PathIffCompleted ==
    \A j \in DOMAIN downloads :
        (downloads[j].filePath # null) <=> (downloads[j].status = "completed")

C2_Witness ==
    \E j \in DOMAIN downloads :
        /\ downloads[j].status = "completed"
        /\ downloads[j].filePath # null
        /\ strat[j] = 1

\* C3: in every state and for every record, progress is 100 if and only if
\* the status is completed.
C3_HundredIffCompleted ==
    \A j \in DOMAIN downloads :
        (downloads[j].progress = 100) <=> (downloads[j].status = "completed")

\* C4: when every strategy of a job has returned false or raised, the
\* pipeline has ended with the record failed and progress 0, and the record
\* stays that way.
C4_ExhaustedStaysFailed ==
    \A j \in DOMAIN downloads :
        pc[j] = "done_failed"
            => downloads[j].status = "failed" /\ downloads[j].progress = 0

\* C5: when a strategy returns true the pipeline ends, the record is then
\* completed with progress 100 and filePath set, and from then on the
\* pipeline takes no step and the status is never failed.
C5_SuccessEndsPipeline ==
    [][\A j \in DOMAIN downloads :
          /\ pc[j] = "got_true" => pc'[j] \in {"got_true", "done_ok"}
          /\ pc[j] # "done_ok" /\ pc'[j] = "done_ok"
                => /\ downloads'[j].status = "completed"
                   /\ downloads'[j].progress = 100
                   /\ downloads'[j].filePath # null
          /\ pc[j] = "done_ok"
                => pc'[j] = "done_ok" /\ downloads'[j].status = "completed"]_vars

C5_Witness ==
    \E j \in DOMAIN downloads :
        /\ pc[j] = "done_ok"
        /\ strat[j] = 2
        /\ downloads[j].status = "completed"

\* C6: an accepted submission creates exactly one record; its response
\* carries that record as it was created (pending, progress 0, no filePath)
\* and is sent while the record is still pending; no later step changes it.
C6_ResponseIsPending ==
    /\ [](/\ DOMAIN downloads = {j \in Ids : pc[j] # "idle"}
          /\ \A j \in Ids :
               response[j] # <<>>
                  => /\ j \in DOMAIN downloads
                     /\ response[j][1].id = j
                     /\ response[j][1].status = "pending"
                     /\ response[j][1].progress = 0
                     /\ response[j][1].filePath = null)
    /\ [][/\ Cardinality(DOMAIN downloads') <= Cardinality(DOMAIN downloads) + 1
          /\ \A j \in Ids :
               /\ response[j] = <<>> /\ response'[j] # <<>>
                     => /\ j \in DOMAIN downloads
                        /\ downloads[j].status = "pending"
                        /\ response'[j] = <<downloads[j]>>
               /\ response[j] # <<>> => response'[j] = response[j]]_vars

C6_Witness ==
    \E j \in DOMAIN downloads :
        /\ response[j] # <<>>
        /\ response[j][1].status = "pending"
        /\ downloads[j].status = "completed"

\* C7: every submitted job eventually reaches the status completed or
\* failed, when every attempt reports an outcome and timers fire.
C7_EventuallyTerminal ==
    \A j \in Ids :
        (j \in DOMAIN downloads)
            ~> (j \in DOMAIN downloads /\ downloads[j].status \in Terminal)

C7_Witness ==
    \E j \in DOMAIN downloads :
        /\ pc[j] = "done_failed"
        /\ strat[j] = NumStrategies - 1
        /\ downloads[j].status = "failed"

\* C8: fetchOutputFile answers 200 with the recorded file only when the
\* record exists, is completed, has a filePath and the file is on disk; in
\* every other case it answers 404.
C8_FileOnlyWhenCompleted ==
    reply.op = "fetchOutputFile"
        => /\ reply.code \in {200, 404}
           /\ reply.code = 200
                <=> /\ reply.id \in DOMAIN downloads
                    /\ downloads[reply.id].status = "completed"
                    /\ downloads[reply.id].filePath # null
                    /\ existsSync(downloads[reply.id].filePath)
           /\ reply.code = 200 => reply.file = downloads[reply.id].filePath

C8_Witness ==
    /\ reply.op = "fetchOutputFile"
    /\ reply.code = 404
    /\ reply.id \in DOMAIN downloads
    /\ downloads[reply.id].status = "completed"
    /\ ~existsSync(downloads[reply.id].filePath)

\* C9: getStatus answers 200 with the current record for an id a submission
\* returned and 404 for an id that was never created, and it leaves the
\* store as it was.
C9_StatusOrNotFound ==
    /\ [](reply.op = "getStatus"
            => /\ reply.id \in Ids /\ response[reply.id] # <<>>
                  => reply.code = 200 /\ reply.body = <<downloads[reply.id]>>
               /\ reply.id \notin DOMAIN downloads
                  => reply.code = 404 /\ reply.body = <<>>)
    /\ [][reply'.op = "getStatus" => UNCHANGED <<downloads, order>>]_vars

C9_Witness ==
    /\ reply.op = "getStatus"
    /\ reply.code = 200
    /\ reply.body[1].status = "downloading"
    /\ reply.body[1].progress > 0

\* C10: listAll returns every stored record exactly once, a record created
\* later before a record created earlier, also when both have the same
\* createdAt.
C10_NewestFirst ==
    reply.op = "listAll"
        => /\ Len(reply.body) = Len(order)
           /\ \A k \in 1..Len(order) :
                \E p \in 1..Len(reply.body) : reply.body[p] = downloads[order[k]]
           /\ \A p, q \in 1..Len(reply.body) :
                p < q => reply.body[p].id > reply.body[q].id

-----------------------------------------------------------------------------
\* C11: while two jobs run concurrently, a step writes to the record of the
\* job that takes the step only: under every interleaving a step changes at
\* most one record, and a record changes only in a step of its own POST
\* handler, pipeline or ytdl-core stream.
C11_WritesStayInOwnRecord ==
    [][/\ \A k \in DOMAIN downloads :
            downloads'[k] # downloads[k]
                => pc'[k] # pc[k] \/ ytdl'[k] # ytdl[k]
       /\ \A k, l \in DOMAIN downloads :
            downloads'[k] # downloads[k] /\ downloads'[l] # downloads[l] => k = l]_vars

C11_Witness ==
    /\ pc[1] = "ye_running" /\ downloads[1].progress = 20
    /\ pc[2] = "yc_streaming" /\ downloads[2].progress = 10

-----------------------------------------------------------------------------
\* C12: POST /api/download rejects a youtubeUrl that is not a well-formed
\* URL of the accepted site (the test videoAnalysisSchema makes): no record
\* is created for it, so every stored record has a URL that passes the test.
C12_UrlValidated ==
    \A j \in DOMAIN downloads : videoAnalysisSchema(downloads[j].youtubeUrl)

\* C13: POST /api/download rejects a format that is not one of the six
\* formats: no record is created for it, so every stored record has one of
\* the six formats.
C13_FormatValidated ==
    \A j \in DOMAIN downloads : downloads[j].format \in Formats

-----------------------------------------------------------------------------
\* C14: in every reachable state a record's id, youtubeUrl, format and
\* createdAt are those createDownload gave it, and a step changes no field
\* of a stored record other than status, progress and filePath.
C14_IdentityFieldsKept ==
    /\ [](\A j \in DOMAIN downloads :
            /\ downloads[j].id = download[j][1].id
            /\ downloads[j].youtubeUrl = download[j][1].youtubeUrl
            /\ downloads[j].format = download[j][1].format
            /\ downloads[j].createdAt = download[j][1].createdAt)
    /\ [][\A j \in DOMAIN downloads :
            \A f \in DOMAIN downloads[j] \ {"status", "progress", "filePath"} :
                downloads'[j][f] = downloads[j][f]]_vars

C14_Witness ==
    \E j \in DOMAIN downloads :
        /\ downloads[j].status = "completed"
        /\ downloads[j].progress = 100
        /\ downloads[j].filePath # null
        /\ downloads[j].createdAt < now

-----------------------------------------------------------------------------
\* C15: a record that was created is in the store in every later state: no
\* step takes a key out of the store or out of its insertion order, and no
\* two records were stored under the same id.
C15_RecordsStay ==
    /\ [](/\ DOMAIN downloads = {order[p] : p \in 1..Len(order)}
          /\ \A p, q \in 1..Len(order) : p # q => order[p] # order[q]
          /\ \A j \in DOMAIN downloads : downloads[j].id = j)
    /\ [][/\ DOMAIN downloads \subseteq DOMAIN downloads'
          /\ Len(order') >= Len(order)
          /\ SubSeq(order', 1, Len(order)) = order]_vars

C15_Witness ==
    /\ Len(order) = MaxReqs
    /\ \A j \in Ids : pc[j] \in {"done_ok", "done_failed"}
    /\ \E j \in Ids : downloads[j].status = "failed"

-----------------------------------------------------------------------------
\* C16: every POST /api/analyze request is answered exactly once, whatever
\* the subprocess does: a request is never answered twice, and a request
\* none of whose handlers and listeners will run again has its one answer.
C16_AnsweredOnce ==
    \A a \in AIds :
        /\ Len(analyze[a].sent) <= 1
        /\ analyze[a].pc \in {"done", "crashed"} => Len(analyze[a].sent) = 1

\* C17: POST /api/analyze answers 200 with the metadata when the analysis
\* succeeds and 400 with a message in every case of failure.
C17_MetadataOr400 ==
    \A a \in AIds :
        \A p \in 1..Len(analyze[a].sent) :
            analyze[a].sent[p] \in {Answer(200, "metadata"), Answer(400, "message")}

-----------------------------------------------------------------------------
(* The history of the strategy loop *)

\* The array `strategies`.
StrategyOrder == <<"tryYtdlCore", "tryYoutubeDlExec", "tryEnhancedYtDlp">>

StrategyNames == {StrategyOrder[i] : i \in 1..NumStrategies}
Outcomes == {"true", "false", "throw"}

\* The calls of strategies in a history, in order, and the numbers of
\* entries of a kind.
Calls(l) == SelectSeq(l, LAMBDA e : e \in StrategyNames)
CountIn(l, kinds) == Len(SelectSeq(l, LAMBDA e : e \in kinds))

\* The positions of a job at which a call of a strategy has not yet given
\* the loop its outcome.
AttemptPcs == {"yc_getinfo", "yc_streaming", "ye_running", "en_updated",
               "en_running", "got_true", "got_false", "got_throw"}

\* C18: when strategy k is the first to return true, the pipeline has called
\* strategies 1..k and no other, exactly k-1 waits between attempts have
\* elapsed, and nothing is called and no wait elapses afterwards.
C18_FirstSuccessStops ==
    /\ [](\A j \in Ids :
            pc[j] = "done_ok"
                => LET k == Len(Calls(log[j]))
                   IN /\ k \in 1..NumStrategies
                      /\ Calls(log[j]) = SubSeq(StrategyOrder, 1, k)
                      /\ log[j][Len(log[j])] = "true"
                      /\ CountIn(log[j], {"true"}) = 1
                      /\ CountIn(log[j], {"delay"}) = k - 1)
    /\ [][\A j \in Ids : pc[j] = "done_ok" => log'[j] = log[j]]_vars

C18_Witness ==
    \E j \in Ids :
        /\ pc[j] = "done_ok"
        /\ Calls(log[j]) = <<"tryYtdlCore", "tryYoutubeDlExec">>
        /\ CountIn(log[j], {"delay"}) = 1

\* C19: within one job at most one attempt is in progress: at every point
\* of the history the calls made are at most one more than the outcomes
\* reported, so a strategy is called only after the one before it reported
\* its outcome; and an attempt is in progress exactly at the positions of
\* the executors.
C19_OneAttemptAtATime ==
    \A j \in Ids :
        /\ \A p \in 1..Len(log[j]) :
              CountIn(SubSeq(log[j], 1, p), StrategyNames)
                - CountIn(SubSeq(log[j], 1, p), Outcomes) \in {0, 1}
        /\ pc[j] \in AttemptPcs
              <=> CountIn(log[j], StrategyNames) - CountIn(log[j], Outcomes) = 1

C19_Witness ==
    \E j \in Ids :
        /\ pc[j] = "en_running"
        /\ log[j] = <<"tryYtdlCore", "false", "delay", "tryYoutubeDlExec", "false",
                      "delay", "tryEnhancedYtDlp">>

\* C20: the strategies are called in the order tryYtdlCore,
\* tryYoutubeDlExec, tryEnhancedYtDlp, each at most once per job, and the
\* k-th call is made only when the k-1 calls before it have all reported
\* false or thrown.
C20_FixedOrderOnFailure ==
    \A j \in Ids :
        /\ Len(Calls(log[j])) <= NumStrategies
        /\ Calls(log[j]) = SubSeq(StrategyOrder, 1, Len(Calls(log[j])))
        /\ \A p \in 1..Len(log[j]) :
              log[j][p] \in StrategyNames
                  => /\ CountIn(SubSeq(log[j], 1, p - 1), {"true"}) = 0
                     /\ CountIn(SubSeq(log[j], 1, p - 1), {"false", "throw"})
                          = CountIn(SubSeq(log[j], 1, p - 1), StrategyNames)

C20_Witness ==
    \E j \in Ids :
        /\ pc[j] = "done_failed"
        /\ Calls(log[j]) = StrategyOrder
        /\ CountIn(log[j], {"false", "throw"}) = NumStrategies

-----------------------------------------------------------------------------
\* C21: a strategy call that throws is handled like one that returns false:
\* the loop goes on to its wait when a strategy is left and to the write of
\* failed when none is, the call is never made again, and the job ends with
\* the status completed or failed.
C21_ThrowLikeFalse ==
    /\ [][\A j \in Ids :
            pc[j] = "got_throw" /\ pc'[j] # pc[j]
                => /\ log'[j] = Append(log[j], "throw")
                   /\ IF strat[j] < NumStrategies - 1
                      THEN pc'[j] = "delay" /\ downloads' = downloads
                      ELSE /\ pc'[j] = "done_failed"
                           /\ downloads'[j].status = "failed"
                           /\ downloads'[j].progress = 0]_vars
    /\ \A j \in Ids :
          pc[j] = "got_throw"
              ~> (pc[j] \in {"done_ok", "done_failed"} /\ downloads[j].status \in Terminal)

C21_Witness ==
    \E j \in Ids :
        /\ pc[j] = "done_failed"
        /\ log[j] # <<>>
        /\ log[j][Len(log[j])] = "throw"
        /\ downloads[j].status = "failed"

-----------------------------------------------------------------------------
\* C22: when an executor's true reaches the loop, the record already has the
\* status completed, the progress 100 and a filePath.
C22_CompletedBeforeTrue ==
    \A j \in Ids :
        pc[j] = "got_true"
            => /\ downloads[j].status = "completed"
               /\ downloads[j].progress = 100
               /\ downloads[j].filePath # null

C22_Witness ==
    \E j \in Ids :
        /\ pc[j] = "got_true"
        /\ strat[j] = NumStrategies - 1
        /\ downloads[j].status = "completed"

-----------------------------------------------------------------------------
\* C23: an executor that returns false has changed no field of the record
\* but progress: when the false reaches the loop the status is downloading
\* and there is no filePath, and no step of an attempt that does not end in
\* true changes the value of a field other than progress.
C23_FalseChangesOnlyProgress ==
    /\ [](\A j \in Ids :
            pc[j] = "got_false"
                => downloads[j].status = "downloading" /\ downloads[j].filePath = null)
    /\ [][\A j \in DOMAIN downloads :
            pc'[j] \in AttemptPcs \ {"got_true"}
                => \A f \in DOMAIN downloads[j] \ {"progress"} :
                      downloads'[j][f] = downloads[j][f]]_vars

C23_Witness ==
    \E j \in Ids :
        /\ pc[j] = "got_false"
        /\ strat[j] = 0
        /\ downloads[j].status = "downloading"
        /\ downloads[j].progress = 100

-----------------------------------------------------------------------------
\* C24: an executor returns true only when its own run produced the output
\* file: when a true reaches the loop, the file at the recorded filePath is
\* on disk, whole, and was written by this job's strategy that returned it.
C24_TrueMeansOwnFile ==
    \A j \in Ids :
        pc[j] = "got_true"
            => \E f \in files :
                  /\ NameOf(f) = downloads[j].filePath
                  /\ f.job = j
                  /\ f.strat = strat[j]
                  /\ ~f.partial

-----------------------------------------------------------------------------
\* C25: within one attempt the progress of the record never goes down: each
\* value a progress event writes is at least the value written before it in
\* the attempt, the attempt's first value 10 included.
C25_ProgressNeverDrops ==
    [][\A j \in DOMAIN downloads :
          pc[j] = "yc_streaming" /\ pc'[j] = "yc_streaming"
              => downloads'[j].progress >= downloads[j].progress]_vars

\* C26: the progress stored in a record is an integer from 0 to 100, for
\* every downloaded and total a progress event reports.
C26_ProgressIsPercent ==
    \A j \in DOMAIN downloads : downloads[j].progress \in 0..100

-----------------------------------------------------------------------------
\* The positions at which an executor waits for its library or subprocess.
RunningPcs == {"yc_getinfo", "yc_streaming", "ye_running", "en_running"}

\* C27: a job whose attempt has not reported an outcome stays as it is: its
\* status is downloading, and as long as the attempt does not report, no
\* step calls another strategy, lets a wait elapse or writes failed.
C27_StalledWithoutOutcome ==
    /\ [](\A j \in Ids : pc[j] \in RunningPcs => downloads[j].status = "downloading")
    /\ [][\A j \in Ids :
            pc[j] \in RunningPcs /\ pc'[j] \notin {"got_true", "got_false", "got_throw"}
                => /\ pc'[j] \in RunningPcs
                   /\ strat'[j] = strat[j]
                   /\ log'[j] = log[j]
                   /\ downloads'[j].status = "downloading"]_vars

C27_Witness ==
    \E j, k \in Ids :
        /\ pc[j] = "en_running"
        /\ downloads[j].status = "downloading"
        /\ pc[k] = "done_ok"
        /\ downloads[k].createdAt >= downloads[j].createdAt
        /\ k > j

-----------------------------------------------------------------------------
\* C28: the updates of one record are serialized, each being one atomic
\* read-merge-write: a progress-only update leaves the record as it was but
\* for the progress it wrote, also when the status was written in between,
\* and an update of the status leaves the status, progress and filePath of
\* that one update in the record, never a mixture with another update.
C28_UpdatesAreAtomic ==
    [][\A j \in DOMAIN downloads :
          /\ ytdl'[j].downloaded > ytdl[j].downloaded
                => downloads'[j] =
                     Merge(downloads[j],
                           [progress |-> RoundPercent(ytdl'[j].downloaded, ytdl[j].total)])
          /\ downloads'[j].status # downloads[j].status
                => /\ downloads'[j].status = "downloading"
                        => downloads'[j].progress = 0
                           /\ downloads'[j].filePath = downloads[j].filePath
                   /\ downloads'[j].status = "completed"
                        => downloads'[j].progress = 100
                           /\ downloads'[j].filePath # null
                   /\ downloads'[j].status = "failed"
                        => downloads'[j].progress = 0
                           /\ downloads'[j].filePath = downloads[j].filePath]_vars

C28_Witness ==
    \E j \in DOMAIN downloads :
        /\ downloads[j].status = "completed"
        /\ ytdl[j].mode = "stale"
        /\ ytdl[j].downloaded = MaxBytes
        /\ ytdl[j].total = 0
        /\ downloads[j].progress = RoundPercent(MaxBytes, 0)
        /\ downloads[j].filePath # null

-----------------------------------------------------------------------------
\* A job between its creation and the end of its pipeline.
InFlight(j) == pc[j] \notin {"idle", "done_ok", "done_failed"}

\* C29: two jobs in flight at the same time do not share an output file:
\* neither the filePath recorded for one of them nor the path its ytdl-core
\* stream writes to names a file that the other job wrote.
C29_NoSharedOutputFile ==
    \A j, k \in Ids :
        j # k /\ InFlight(j) /\ InFlight(k)
            => \A f \in files :
                  f.job = k
                      => /\ NameOf(f) # downloads[j].filePath
                         /\ ytdl[j].mode = "live" => NameOf(f) # ytdl[j].path

-----------------------------------------------------------------------------
\* C30: the pipeline has written status downloading and progress 0 when it
\* calls the first strategy: the first call is made from a record that is
\* {downloading, 0}, and a record that is pending has had no strategy called.
C30_MarkedBeforeFirstCall ==
    /\ [](\A j \in DOMAIN downloads : downloads[j].status = "pending" => log[j] = <<>>)
    /\ [][\A j \in DOMAIN downloads :
            log[j] = <<>> /\ log'[j] # <<>>
                => /\ downloads[j].status = "downloading"
                   /\ downloads[j].progress = 0
                   /\ log'[j] = <<"tryYtdlCore">>]_vars

C30_Witness ==
    \E j \in DOMAIN downloads :
        /\ pc[j] = "got_false"
        /\ log[j] = <<"tryYtdlCore">>
        /\ ~validateURL(downloads[j].youtubeUrl)
        /\ downloads[j].status = "downloading"
        /\ downloads[j].progress = 0

-----------------------------------------------------------------------------
\* C31: once an attempt has reported false nothing it left behind writes to
\* the record: a progress event of the ytdl-core stream whose tryYtdlCore
\* resolved false on a write-stream error leaves the record as it is, and a
\* record is written completed only by the attempt that is running.
C31_NoWriteAfterFalse ==
    [][\A j \in DOMAIN downloads :
          /\ ytdl[j].mode = "stale" /\ ytdl'[j].downloaded # ytdl[j].downloaded
                => downloads'[j] = downloads[j]
          /\ downloads[j].status # "completed" /\ downloads'[j].status = "completed"
                => pc[j] \in RunningPcs /\ pc'[j] = "got_true"]_vars

-----------------------------------------------------------------------------
\* C32: a strategy that succeeds after an earlier strategy of the job failed
\* records a file of its own run: the filePath it writes never names a file
\* that an earlier attempt of the job left in the directory.
C32_PathIsNotALeftover ==
    \A j \in Ids :
        pc[j] = "got_true" /\ strat[j] > 0
            => ~\E f \in files :
                   /\ NameOf(f) = downloads[j].filePath
                   /\ f.job = j
                   /\ f.strat < strat[j]

-----------------------------------------------------------------------------
\* C33: when all strategies of a job failed, exactly NumStrategies - 1 waits
\* elapsed, one after each failed attempt but the last, and the outcome of
\* the last attempt is followed by the write of failed with no wait.
C33_AllFailedDelays ==
    /\ [](\A j \in Ids :
            pc[j] = "done_failed" /\ Calls(log[j]) = StrategyOrder
                => /\ Len(log[j]) = 3 * NumStrategies - 1
                   /\ CountIn(log[j], {"delay"}) = NumStrategies - 1
                   /\ \A p \in 1..Len(log[j]) :
                         /\ log[j][p] = "delay" <=> p % 3 = 0
                         /\ log[j][p] \in {"false", "throw"} <=> p % 3 = 2
                   /\ downloads[j].status = "failed")
    /\ [][\A j \in Ids :
            (/\ pc[j] \in {"got_false", "got_throw"}
             /\ strat[j] = NumStrategies - 1
             /\ pc'[j] # pc[j])
                => /\ pc'[j] = "done_failed"
                   /\ downloads'[j].status = "failed"
                   /\ CountIn(log'[j], {"delay"}) = NumStrategies - 1]_vars

C33_Witness ==
    \E j \in Ids :
        /\ pc[j] = "done_failed"
        /\ log[j] = <<"tryYtdlCore", "false", "delay", "tryYoutubeDlExec", "false",
                      "delay", "tryEnhancedYtDlp", "false">>
        /\ downloads[j].status = "failed"

-----------------------------------------------------------------------------
\* C34: jobs progress independently.  Whatever the other jobs do, also when
\* one of them never reports or has failed: with no microtask pending a new
\* submission can be taken and every job in flight can take its next step,
\* and a job whose own attempts report and whose timers fire reaches
\* completed or failed while the job before it may stall forever.
C34_JobsIndependent ==
    /\ [](NoMicrotask /\ Len(order) < MaxReqs
            => ENABLED PostDownload(Body(GoodUrl, <<"a">>, "mp4",
                                         {"youtubeUrl", "title", "format"})))
    /\ [](\A k \in Ids :
            InFlight(k) /\ (\A j \in Ids \ {k} : pc[j] \notin MicroPcs)
                => ENABLED PipelineStep(k))
    /\ (MaxReqs \in DOMAIN downloads)
          ~> (MaxReqs \in DOMAIN downloads /\ downloads[MaxReqs].status \in Terminal)

C34_Witness ==
    /\ pc[1] = "yc_getinfo"
    /\ downloads[1].status = "downloading"
    /\ pc[MaxReqs] = "done_ok"
    /\ downloads[MaxReqs].status = "completed"

\* C35: in startDownload a record that is failed or completed keeps its
\* status: no later step, the chain of alternative strategies started from
\* the catch block included, writes another status to it.
C35_StartDownloadTerminal ==
    [][\A j \in DOMAIN downloads :
          downloads[j].status \in Terminal
              => downloads'[j].status = downloads[j].status]_vars

\* An alternative strategy of job j was started, or is about to be.
Alternatives(j) ==
    sd[j].trying + sd[j].children + sd[j].errored + sd[j].timers
        + sd[j].strategyIndex > 0

\* C36: in startDownload, once the primary yt-dlp process has exited with a
\* non-zero code the record is failed with progress 0 and no alternative
\* strategy is started; a job whose alternative strategies were started is
\* one whose try block raised before any primary process ran.
C36_NonZeroExitJustFails ==
    \A j \in Ids :
        /\ sd[j].exit = "nonzero"
              => /\ downloads[j].status = "failed"
                 /\ downloads[j].progress = 0
                 /\ pc[j] = "sd_end"
                 /\ ~Alternatives(j)
        /\ Alternatives(j) => pc[j] = "sd_chain" /\ sd[j].exit = "none"

\* One job reported 40 percent and then exited with a non-zero code; the
\* other raised at the spawn and runs an alternative process.
C36_Witness ==
    \E j, k \in Ids :
        /\ sd[j].exit = "nonzero"
        /\ sd[j].lastProgress = 40
        /\ downloads[j].status = "failed"
        /\ downloads[j].progress = 0
        /\ sd[k].children > 0
        /\ downloads[k].status = "downloading"

\* C37: tryYtdlCore called with a URL that ytdl.validateURL rejects returns
\* false and writes nothing: the step of the call leaves the store as it
\* is, and until the next strategy is called the record is still
\* {downloading, 0}, so its progress was not set to 10.
C37_RejectedUrlWritesNothing ==
    /\ [][\A j \in DOMAIN downloads :
            /\ ~validateURL(downloads[j].youtubeUrl)
            /\ log[j] = <<>> /\ log'[j] = <<"tryYtdlCore">>
            => downloads' = downloads /\ pc'[j] = "got_false"]_vars
    /\ [](\A j \in DOMAIN downloads :
            /\ ~validateURL(downloads[j].youtubeUrl)
            /\ log[j] # <<>>
            /\ \A p \in DOMAIN log[j] :
                   log[j][p] \notin {"tryYoutubeDlExec", "tryEnhancedYtDlp"}
            => /\ downloads[j].status = "downloading"
               /\ downloads[j].progress = 0)

\* The rejected call has returned false and the loop waits before the
\* second strategy, with the record as the pipeline wrote it.
C37_Witness ==
    \E j \in DOMAIN downloads :
        /\ ~validateURL(downloads[j].youtubeUrl)
        /\ log[j] = <<"tryYtdlCore", "false">>
        /\ pc[j] = "delay"
        /\ downloads[j].status = "downloading"
        /\ downloads[j].progress = 0

\* C38: updateDownload called with an id that is not in the store returns
\* undefined and leaves the store as it is, and no call of updateDownload
\* adds a record: whatever the pipeline writes to a record that is missing,
\* the store has the records it had.
C38_MissingIdChangesNothing ==
    [][/\ reply'.op = "updateDownload" /\ reply'.id \notin DOMAIN downloads
            => downloads' = downloads /\ reply'.body = <<>>
       /\ DOMAIN downloads' = DOMAIN downloads]_vars

\* A call for a missing id has returned undefined, in a store whose one
\* record was completed by earlier calls.
C38_Witness ==
    /\ reply.op = "updateDownload"
    /\ reply.id \notin DOMAIN downloads
    /\ reply.body = <<>>
    /\ DOMAIN downloads = {1}
    /\ downloads[1].status = "completed"

====
